---------------------------- MODULE Spec2Model ----------------------------
(***************************************************************************)
(* Model of the Google Colab / Drive MCP server (handleCallTool): the      *)
(* notebook tools add_code_cell and edit_code_cell, the store they fetch   *)
(* from and write to, and the line-fragment encoding of a cell's source.   *)
(*                                                                         *)
(* A text is a sequence of one-character strings; NL is the line break.    *)
(* An optional value (a JSON null, an omitted argument) is the empty       *)
(* sequence, a present one is the one-element sequence holding it.         *)
(***************************************************************************)
EXTENDS Integers, Sequences, FiniteSets, TLC

VARIABLES files, folder, calls, maps, text, source, encoder

vars == <<files, folder, calls, maps, text, source, encoder>>

(***************************************************************************)
(* Bounds of the model.                                                    *)
(***************************************************************************)
MaxTextLen == 4

MaxPosition == 3

MaxInitCells == 2

NL == "\n"

Chars == {"a", "b", NL}

None == <<>>

Some(v) == <<v>>

(***************************************************************************)
(* Texts.                                                                  *)
(***************************************************************************)
TextsUpTo(alphabet, n) == UNION {[1..k -> alphabet] : k \in 0..n}

Texts == TextsUpTo(Chars, MaxTextLen)

RECURSIVE Concat(_)
Concat(frags) ==
    IF frags = <<>> THEN <<>> ELSE Head(frags) \o Concat(Tail(frags))

EndsWithNL(t) == Len(t) > 0 /\ t[Len(t)] = NL

CountNL(t) == Cardinality({i \in 1..Len(t) : t[i] = NL})

(***************************************************************************)
(* String.prototype.split('\n'): the pieces between the line breaks; a     *)
(* text with k line breaks has k+1 pieces, the empty text has one empty    *)
(* piece.                                                                  *)
(***************************************************************************)
RECURSIVE SplitFrom(_, _)
SplitFrom(t, piece) ==
    IF t = <<>> THEN <<piece>>
    ELSE IF Head(t) = NL THEN <<piece>> \o SplitFrom(Tail(t), <<>>)
    ELSE SplitFrom(Tail(t), Append(piece, Head(t)))

Split(t) == SplitFrom(t, <<>>)

MapAddNewline_NoTerminator(lines) == lines

(* .map(line => line + '\n') *)
MapAddNewline(lines) == [i \in 1..Len(lines) |-> Append(lines[i], NL)]

PopBlankLast_Never(src) == src

PopBlankLast_KeepsOne(src) ==
    IF Len(src) > 1 /\ src[Len(src)] = <<NL>>
    THEN SubSeq(src, 1, Len(src) - 1)
    ELSE src

PopBlankLast_TestsEmpty(src) ==
    IF Len(src) > 0 /\ src[Len(src)] = <<>>
    THEN SubSeq(src, 1, Len(src) - 1)
    ELSE src

(* if (source.length > 0 && source[source.length - 1] === '\n') source.pop() *)
PopBlankLast(src) ==
    IF Len(src) > 0 /\ src[Len(src)] = <<NL>>
    THEN SubSeq(src, 1, Len(src) - 1)
    ELSE src

(* line.replace(/\n$/, ''): without the m flag $ is the end of the string *)
ReplaceTrailingNewline(line) ==
    IF EndsWithNL(line) THEN SubSeq(line, 1, Len(line) - 1) ELSE line

StripLast_Skipped(src) == src

(* if (source.length > 0) source[last] = source[last].replace(/\n$/, '') *)
StripLast(src) ==
    IF Len(src) > 0
    THEN [src EXCEPT ![Len(src)] = ReplaceTrailingNewline(src[Len(src)])]
    ELSE src

(* newCell.source of add_code_cell *)
AddCellSource(code) == StripLast(PopBlankLast(MapAddNewline(Split(code))))

(* targetCell.source of edit_code_cell *)
EditCellSource(newCode) == StripLast(PopBlankLast(MapAddNewline(Split(newCode))))

(***************************************************************************)
(* The ErrorCode enum of the MCP SDK, by name.                             *)
(***************************************************************************)
ErrorCode ==
    [InvalidRequest |-> "InvalidRequest", MethodNotFound |-> "MethodNotFound",
     InvalidParams |-> "InvalidParams", InternalError |-> "InternalError"]

(***************************************************************************)
(* Notebook documents.  A cell has the five nbformat fields; the parsed    *)
(* document is null, or an object whose "cells" is an array (Some) or not  *)
(* (None), with its other top-level fields kept as one opaque value.       *)
(* A file body is text: it either parses as JSON or does not, and JSON     *)
(* text has a layout (its indentation) besides the value it denotes.       *)
(***************************************************************************)
CodeCell ==
    [cell_type |-> "code", execution_count |-> Some(1),
     metadata |-> {"collapsed"}, outputs |-> <<"out">>,
     source |-> << <<"x">> >>]

MarkdownCell ==
    [cell_type |-> "markdown", execution_count |-> None,
     metadata |-> {}, outputs |-> <<>>,
     source |-> << <<"#">> >>]

(* a code cell whose outputs hold two JSON numbers, written as in the text *)
(* of the file: an integer no double holds exactly and a number beyond the *)
(* range of a double                                                       *)
NumberCell ==
    [cell_type |-> "code", execution_count |-> Some(2),
     metadata |-> {}, outputs |-> <<"12345678901234567890", "1e999">>,
     source |-> << <<"y">> >>]

CellPool == {CodeCell, MarkdownCell, NumberCell}

JsonNull == [kind |-> "null", cells |-> None, rest |-> "none"]

JsonObject(cells, rest) == [kind |-> "object", cells |-> cells, rest |-> rest]

NoText == [syntax |-> "invalid", indent |-> 0, value |-> JsonNull]

JsonText(value, indent) == [syntax |-> "json", indent |-> indent, value |-> value]

(* the text of the top-level fields other than cells: "nbformat": 4 alone, *)
(* or with a field n whose integer no double holds exactly, or with a      *)
(* field big whose number is beyond the range of a double                  *)
PlainFields == "nbformat4"

BigIntegerField == "nbformat4,n:12345678901234567890"

HugeNumberField == "nbformat4,big:1e999"

InitNotebooks ==
    {JsonObject(Some(cs), PlainFields) :
        cs \in UNION {[1..k -> CellPool] : k \in 0..MaxInitCells}}
    \cup {JsonObject(Some(<<CodeCell>>), rest) :
            rest \in {BigIntegerField, HugeNumberField}}

InitBodies ==
    {NoText, JsonText(JsonNull, 0), JsonText(JsonObject(None, PlainFields), 0)}
        \cup {JsonText(nb, 0) : nb \in InitNotebooks}

(* a JSON number becomes a double: the nearest one for an integer beyond   *)
(* 2^53, Infinity for a number beyond the range of a double                *)
ParseNumbers(rest) ==
    CASE rest = BigIntegerField -> "nbformat4,n:12345678901234567000"
      [] rest = HugeNumberField -> "nbformat4,big:Infinity"
      [] OTHER -> rest

(* a double is written with its shortest digits; one that is not finite is *)
(* written as null                                                         *)
StringifyNumbers(rest) ==
    CASE rest = "nbformat4,big:Infinity" -> "nbformat4,big:null"
      [] OTHER -> rest

(* the same two conversions on one number inside a cell *)
ParseNumber(token) ==
    CASE token = "12345678901234567890" -> "12345678901234567000"
      [] token = "1e999" -> "Infinity"
      [] OTHER -> token

StringifyNumber(number) ==
    CASE number = "Infinity" -> "null"
      [] OTHER -> number

(* the conversions reach every number of the document, those inside the    *)
(* cells included; execution_count is a small integer, which a double      *)
(* holds exactly, and the modelled metadata holds no number                *)
ParseCells(cells) ==
    [i \in 1..Len(cells) |->
        [cells[i] EXCEPT !.outputs =
            [j \in 1..Len(cells[i].outputs) |->
                ParseNumber(cells[i].outputs[j])]]]

StringifyCells(cells) ==
    [i \in 1..Len(cells) |->
        [cells[i] EXCEPT !.outputs =
            [j \in 1..Len(cells[i].outputs) |->
                StringifyNumber(cells[i].outputs[j])]]]

(* JSON.parse(notebookContent): throws on text that is not JSON *)
JSONParse(body) ==
    [threw |-> body.syntax = "invalid",
     value |-> [body.value EXCEPT
                   !.rest = ParseNumbers(@),
                   !.cells = IF @ = None THEN None
                             ELSE Some(ParseCells(@[1]))]]

(* JSON.stringify(notebookJson, null, 2) *)
JSONStringify(value, indent) ==
    JsonText([value EXCEPT
                 !.rest = StringifyNumbers(@),
                 !.cells = IF @ = None THEN None
                           ELSE Some(StringifyCells(@[1]))], indent)

(* !notebookJson || !Array.isArray(notebookJson.cells) *)
InvalidStructure(notebookJson) ==
    notebookJson.kind = "null" \/ notebookJson.cells = None

(***************************************************************************)
(* Errors thrown inside a handler, and what the caller receives.           *)
(***************************************************************************)
NoError ==
    [class |-> "none", code |-> "none", status |-> 0, text |-> "",
     index |-> None, count |-> None, type |-> None, issues |-> <<>>]

(* a ZodError holds one issue for every constraint that failed *)
ZodError(issues) == [NoError EXCEPT !.class = "ZodError", !.issues = issues]

(* error.errors.map(e => e.message).join(', ') *)
RECURSIVE JoinMessages(_)
JoinMessages(issues) ==
    IF issues = <<>> THEN ""
    ELSE IF Len(issues) = 1 THEN issues[1]
    ELSE issues[1] \o ", " \o JoinMessages(Tail(issues))

McpError(code, message) ==
    [NoError EXCEPT !.class = "McpError", !.code = code, !.text = message]

GaxiosError(status, message) ==
    [NoError EXCEPT !.class = "GaxiosError", !.status = status, !.text = message]

Is404_Never(error) == FALSE

(* gapiError.code === 404 || gapiError.response?.status === 404 *)
Is404(error) == error.class = "GaxiosError" /\ error.status = 404

(* the value of a resolved call *)
Success(message, id) ==
    [isError |-> FALSE, code |-> "none", text |-> message,
     notFoundId |-> None, id |-> Some(id), cause |-> NoError]

(***************************************************************************)
(* The catch block of a notebook tool: a ZodError becomes InvalidParams,   *)
(* its issues joined after the tool's prefix (the branch sets the code and *)
(* the message and falls through to the throw at the end of the block);    *)
(* any other Error (a provider error, and equally an McpError thrown in    *)
(* the try block) becomes InvalidRequest when it carries status 404 and    *)
(* InternalError otherwise, its message appended to the tool's prefix.     *)
(***************************************************************************)
Catch(tool, failed, error, args) ==
    IF error.class = "ZodError"
    THEN [isError |-> TRUE, code |-> ErrorCode.InvalidParams,
          text |-> failed \o "Invalid arguments for " \o tool \o ": "
                      \o JoinMessages(error.issues),
          notFoundId |-> None, id |-> None, cause |-> error]
    ELSE [isError |-> TRUE,
          code |-> IF Is404(error) THEN ErrorCode.InvalidRequest
                   ELSE ErrorCode.InternalError,
          text |-> failed,
          notFoundId |-> IF Is404(error) THEN args.notebookFileId ELSE None,
          id |-> None, cause |-> error]

(* the catch block of list_files and of write_file: no 404 case *)
CatchPlain(tool, failed, error) ==
    IF error.class = "ZodError"
    THEN [isError |-> TRUE, code |-> ErrorCode.InvalidParams,
          text |-> "Invalid arguments for " \o tool \o ": "
                      \o JoinMessages(error.issues),
          notFoundId |-> None, id |-> None, cause |-> error]
    ELSE [isError |-> TRUE, code |-> ErrorCode.InternalError,
          text |-> failed, notFoundId |-> None, id |-> None, cause |-> error]

(* the catch block of read_file: the 404 message echoes args.fileId *)
CatchReadFile(tool, failed, error, args) ==
    IF error.class = "ZodError"
    THEN [isError |-> TRUE, code |-> ErrorCode.InvalidParams,
          text |-> failed \o "Invalid arguments for " \o tool \o ": "
                      \o JoinMessages(error.issues),
          notFoundId |-> None, id |-> None, cause |-> error]
    ELSE [isError |-> TRUE,
          code |-> IF Is404(error) THEN ErrorCode.InvalidRequest
                   ELSE ErrorCode.InternalError,
          text |-> failed,
          notFoundId |-> IF Is404(error) THEN args.fileId ELSE None,
          id |-> None, cause |-> error]

(***************************************************************************)
(* Argument schemas.  An argument is None when the caller left it out;     *)
(* args.object is FALSE when the request has no arguments at all.  parse   *)
(* collects one issue for every failing field, in the schema's order.      *)
(***************************************************************************)
Required(arg) == arg = None

Negative(arg) == arg # None /\ arg[1] < 0

NotPositive(arg) == arg # None /\ arg[1] <= 0

Issue(fails, message) == IF fails THEN <<message>> ELSE <<>>

(* z.object({...}).parse(args): undefined is not an object *)
Parse(args, issues) ==
    IF ~args.object
    THEN [threw |-> TRUE, error |-> ZodError(<<"Required">>)]
    ELSE IF issues # <<>>
    THEN [threw |-> TRUE, error |-> ZodError(issues)]
    ELSE [threw |-> FALSE, error |-> NoError]

AddCodeCellArgsSchema_AnySign(args) ==
    Parse(args,
          Issue(Required(args.notebookFileId), "Required")
             \o Issue(Required(args.code), "Required"))

(* AddCodeCellArgsSchema.parse(args) *)
AddCodeCellArgsSchema(args) ==
    Parse(args,
          Issue(Required(args.notebookFileId), "Required")
             \o Issue(Required(args.code), "Required")
             \o Issue(Negative(args.position),
                      "Number must be greater than or equal to 0"))

(* EditCodeCellArgsSchema.parse(args) *)
EditCodeCellArgsSchema(args) ==
    Parse(args,
          Issue(Required(args.notebookFileId), "Required")
             \o Issue(Required(args.cellIndex), "Required")
             \o Issue(Negative(args.cellIndex),
                      "Number must be greater than or equal to 0")
             \o Issue(Required(args.newCode), "Required"))

(* ListFilesArgsSchema.parse(args): every field optional, pageSize positive *)
ListFilesArgsSchema(args) ==
    Parse(args,
          Issue(NotPositive(args.pageSize), "Number must be greater than 0"))

(* ReadFileArgsSchema.parse(args) *)
ReadFileArgsSchema(args) ==
    Parse(args, Issue(Required(args.fileId), "Required"))

(* WriteFileArgsSchema.parse(args): parentFolderId and mimeType default *)
WriteFileArgsSchema(args) ==
    Parse(args,
          Issue(Required(args.fileName), "Required")
             \o Issue(Required(args.content), "Required"))

(***************************************************************************)
(* add_code_cell, from the downloaded body to the body to upload.          *)
(***************************************************************************)
NewCell(code) ==
    [cell_type |-> "code", execution_count |-> None, metadata |-> {},
     outputs |-> <<>>, source |-> AddCellSource(code)]

(* cells.splice(start, 0, item) for 0 <= start <= cells.length *)
Splice(cells, start, item) ==
    SubSeq(cells, 1, start) \o <<item>> \o SubSeq(cells, start + 1, Len(cells))

InsertOrAppend_DefaultsToFront(cells, position, newCell) ==
    IF position = None
    THEN Splice(cells, 0, newCell)
    ELSE IF position[1] >= 0 /\ position[1] <= Len(cells)
    THEN Splice(cells, position[1], newCell)
    ELSE Append(cells, newCell)

(* if (position !== undefined && position >= 0 && position <= cells.length) *)
(*     cells.splice(position, 0, newCell) else cells.push(newCell)          *)
InsertOrAppend(cells, position, newCell) ==
    IF position # None /\ position[1] >= 0 /\ position[1] <= Len(cells)
    THEN Splice(cells, position[1], newCell)
    ELSE Append(cells, newCell)

Returned(body) == [threw |-> FALSE, error |-> NoError, body |-> body]

Threw(error) == [threw |-> TRUE, error |-> error, body |-> NoText]

AddCodeCellBody(notebookContent, args) ==
    LET parsed == JSONParse(notebookContent)
        notebookJson == parsed.value
    IN  IF parsed.threw
        THEN Threw(McpError(ErrorCode.InternalError,
                            "Failed to parse notebook content"))
        ELSE IF InvalidStructure(notebookJson)
        THEN Threw(McpError(ErrorCode.InternalError,
                            "Invalid notebook structure"))
        ELSE Returned(JSONStringify(
                 [notebookJson EXCEPT !.cells =
                     Some(InsertOrAppend(notebookJson.cells[1], args.position,
                                         NewCell(args.code[1])))], 2))

(***************************************************************************)
(* edit_code_cell, from the downloaded body to the body to upload.         *)
(***************************************************************************)
InvalidCellIndex_ReportsLastIndex(cellIndex, count) ==
    [McpError(ErrorCode.InvalidParams, "Invalid cell index")
        EXCEPT !.index = Some(cellIndex), !.count = Some(count - 1)]

(* `Invalid cell index: ${cellIndex}. Notebook has ${cells.length} cells.` *)
InvalidCellIndex(cellIndex, count) ==
    [McpError(ErrorCode.InvalidParams, "Invalid cell index")
        EXCEPT !.index = Some(cellIndex), !.count = Some(count)]

(* `Cell at index ${cellIndex} is not a code cell (type: ${cell_type}).` *)
NotACodeCell(cellIndex, type) ==
    [McpError(ErrorCode.InvalidParams, "is not a code cell")
        EXCEPT !.index = Some(cellIndex), !.type = Some(type)]

(* cellIndex < 0 || cellIndex >= notebookJson.cells.length *)
IndexOutOfRange(cellIndex, cells) ==
    cellIndex < 0 \/ cellIndex >= Len(cells)

(* targetCell.source = ... *)
SetSource(targetCell, newCode) ==
    [targetCell EXCEPT !.source = EditCellSource(newCode)]

NotCode_Never(targetCell) == FALSE

(* targetCell.cell_type !== 'code' *)
NotCode(targetCell) == targetCell.cell_type # "code"

EditCodeCellBody(notebookContent, args) ==
    LET parsed == JSONParse(notebookContent)
        notebookJson == parsed.value
        cellIndex == args.cellIndex[1]
    IN  IF parsed.threw
        THEN Threw(McpError(ErrorCode.InternalError,
                            "Failed to parse notebook content"))
        ELSE IF InvalidStructure(notebookJson)
        THEN Threw(McpError(ErrorCode.InternalError,
                            "Invalid notebook structure"))
        ELSE LET cells == notebookJson.cells[1] IN
             IF IndexOutOfRange(cellIndex, cells)
             THEN Threw(InvalidCellIndex(cellIndex, Len(cells)))
             ELSE LET targetCell == cells[cellIndex + 1] IN
                  IF NotCode(targetCell)
                  THEN Threw(NotACodeCell(cellIndex, targetCell.cell_type))
                  ELSE Returned(JSONStringify(
                           [notebookJson EXCEPT !.cells =
                               Some([cells EXCEPT ![cellIndex + 1] =
                                       SetSource(targetCell, args.newCode[1])])],
                           2))

(***************************************************************************)
(* Tool calls.  The handler is async: it runs to its first await (the      *)
(* download), resumes when the download settles and runs to its second     *)
(* await (the upload), and resumes when the upload settles.  The server    *)
(* starts the handler of every request it receives, so calls interleave at *)
(* the awaits.                                                             *)
(***************************************************************************)
Calls == {"c1", "c2"}

NotebookId == "nb1"

(* the code texts of the calls: the empty text and a two-line text *)
CodeTexts == {<<>>, <<"a", NL, "b">>}

Positions == {None} \cup {Some(k) : k \in -1..MaxPosition}

NoArguments ==
    [notebookFileId |-> None, code |-> None, position |-> None,
     cellIndex |-> None, newCode |-> None, fileId |-> None,
     fileName |-> None, content |-> None, parentFolderId |-> None,
     pageSize |-> None, object |-> TRUE]

(* request.params.arguments left out of the request *)
UndefinedArguments == [NoArguments EXCEPT !.object = FALSE]

(* the arguments of a call: the non-empty text with every position or     *)
(* index, the empty text once, and records that leave a required argument  *)
(* out                                                                     *)
AddCodeCellArguments ==
    {[NoArguments EXCEPT !.notebookFileId = Some(NotebookId),
                         !.code = Some(t), !.position = p] :
        t \in CodeTexts \ {<<>>}, p \in Positions}
    \cup {[NoArguments EXCEPT !.notebookFileId = Some(NotebookId),
                              !.code = Some(<<>>)],
          [NoArguments EXCEPT !.notebookFileId = Some(NotebookId)],
          [NoArguments EXCEPT !.notebookFileId = Some(NotebookId),
                              !.position = Some(-1)]}

EditCodeCellArguments ==
    {[NoArguments EXCEPT !.notebookFileId = Some(NotebookId),
                         !.cellIndex = Some(k), !.newCode = Some(t)] :
        k \in -1..MaxPosition, t \in CodeTexts \ {<<>>}}
    \cup {[NoArguments EXCEPT !.notebookFileId = Some(NotebookId),
                              !.cellIndex = Some(0), !.newCode = Some(<<>>)],
          [NoArguments EXCEPT !.notebookFileId = Some(NotebookId),
                              !.cellIndex = Some(0)],
          [NoArguments EXCEPT !.notebookFileId = Some(NotebookId),
                              !.cellIndex = Some(-1)]}

ListFilesArguments ==
    {[NoArguments EXCEPT !.pageSize = n] : n \in {None, Some(0), Some(1)}}
        \cup {UndefinedArguments}

ReadFileArguments ==
    {NoArguments, [NoArguments EXCEPT !.fileId = Some(NotebookId)]}

FileName == "notes.txt"

Contents == {<<"a">>, <<"b">>}

WriteFileArguments ==
    {[NoArguments EXCEPT !.fileName = Some(FileName), !.content = Some(t)] :
        t \in Contents}
    \cup {[NoArguments EXCEPT !.fileName = Some(FileName)], NoArguments,
          [NoArguments EXCEPT !.fileName = Some(FileName),
                              !.content = Some(<<"a">>),
                              !.parentFolderId = Some("")]}

NotebookTools == {"add_code_cell", "edit_code_cell"}

(* the tools the Drive server lists, and a name that neither server lists *)
DriveTools == {"list_files", "read_file", "write_file"} \cup NotebookTools

UnknownTool == "delete_file"

Idle ==
    [pc |-> "idle", name |-> "none", arguments |-> NoArguments,
     fetched |-> None, pending |-> None, gets |-> 0, api |-> <<>>,
     wrote |-> <<>>, result |-> None]

ToolPrefix(name) ==
    CASE name = "list_files" -> "Failed to list files: "
      [] name = "read_file" -> "Failed to read file: "
      [] name = "write_file" -> "Failed to write file: "
      [] name = "add_code_cell" -> "Failed to add code cell: "
      [] OTHER -> "Failed to edit code cell: "

Schema(name, args) ==
    CASE name = "list_files" -> ListFilesArgsSchema(args)
      [] name = "read_file" -> ReadFileArgsSchema(args)
      [] name = "write_file" -> WriteFileArgsSchema(args)
      [] name = "add_code_cell" -> AddCodeCellArgsSchema(args)
      [] OTHER -> EditCodeCellArgsSchema(args)

(* the await a tool reaches first, and the Drive method it awaits there *)
FirstAwait(name) ==
    CASE name = "list_files" -> "list"
      [] name = "read_file" -> "read"
      [] name = "write_file" -> "create"
      [] OTHER -> "get"

FirstMethod(name) ==
    CASE name = "list_files" -> "files.list"
      [] name = "write_file" -> "files.create"
      [] OTHER -> "files.get"

(* the catch block of the call's tool, rethrowing as an McpError *)
Fail(call, error) ==
    [call EXCEPT !.pc = "done", !.pending = None,
                 !.result = Some(
                     CASE call.name \in {"list_files", "write_file"} ->
                            CatchPlain(call.name, ToolPrefix(call.name), error)
                       [] call.name = "read_file" ->
                            CatchReadFile(call.name, ToolPrefix(call.name),
                                          error, call.arguments)
                       [] OTHER ->
                            Catch(call.name, ToolPrefix(call.name), error,
                                  call.arguments))]

(***************************************************************************)
(* The Maps server (GoogleMapsServer).  An argument is a JavaScript value: *)
(* its typeof, its text when it is a string, and the typeof of each of its *)
(* elements when it is an array.                                           *)
(***************************************************************************)
Undefined == [type |-> "undefined", str |-> "", items |-> <<>>]

Str(s) == [type |-> "string", str |-> s, items |-> <<>>]

Num == [type |-> "number", str |-> "", items |-> <<>>]

Arr(types) == [type |-> "array", str |-> "", items |-> types]

(* the enum the inputSchema of get_directions and get_distance_matrix      *)
(* declares for mode                                                       *)
DeclaredModes == {"driving", "walking", "bicycling", "transit"}

MapsNoArguments ==
    [address |-> Undefined, lat |-> Undefined, lng |-> Undefined,
     origin |-> Undefined, destination |-> Undefined, mode |-> Undefined,
     origins |-> Undefined, destinations |-> Undefined, object |-> TRUE]

(* request.params.arguments left out of the request *)
MapsUndefinedArguments == [MapsNoArguments EXCEPT !.object = FALSE]

ModeValues == {Undefined, Num, Str("flying")} \cup {Str(m) : m \in DeclaredModes}

GeocodeArguments ==
    {[MapsNoArguments EXCEPT !.address = a] : a \in {Undefined, Num, Str("A")}}
        \cup {MapsUndefinedArguments}

ReverseGeocodeArguments ==
    {[MapsNoArguments EXCEPT !.lat = x, !.lng = y] :
        x \in {Undefined, Num}, y \in {Str("1"), Num}}

DirectionsArguments ==
    {[MapsNoArguments EXCEPT !.origin = o, !.destination = Str("B"),
                             !.mode = m] :
        o \in {Undefined, Str("A")}, m \in ModeValues}

DistanceMatrixArguments ==
    {[MapsNoArguments EXCEPT !.origins = o, !.destinations = Arr(<<"string">>),
                             !.mode = m] :
        o \in {Str("A"), Arr(<<"string", "number">>), Arr(<<"string">>)},
        m \in ModeValues}

MapsTools ==
    {"geocode", "reverse_geocode", "get_directions", "get_distance_matrix"}

(* typeof args === 'object' && args !== null *)
IsObject(args) == args.object

IsString(v) == v.type = "string"

(* Array.isArray(v) && v.every(o => typeof o === 'string') *)
IsStringArray(v) ==
    v.type = "array" /\ \A i \in 1..Len(v.items) : v.items[i] = "string"

(* isGeocodeArgs *)
isGeocodeArgs(args) == IsObject(args) /\ IsString(args.address)

(* isReverseGeocodeArgs *)
isReverseGeocodeArgs(args) ==
    IsObject(args) /\ args.lat.type = "number" /\ args.lng.type = "number"

(* args.mode === undefined || typeof args.mode === 'string' *)
ModeGuard(mode) == mode.type = "undefined" \/ IsString(mode)

(* isDirectionsArgs *)
isDirectionsArgs(args) ==
    IsObject(args) /\ IsString(args.origin) /\ IsString(args.destination) /\ ModeGuard(args.mode)

(* isDistanceMatrixArgs *)
isDistanceMatrixArgs(args) ==
    /\ IsObject(args)
    /\ IsStringArray(args.origins)
    /\ IsStringArray(args.destinations)
    /\ ModeGuard(args.mode)

MapsGuard(name, args) ==
    CASE name = "geocode" -> isGeocodeArgs(args)
      [] name = "reverse_geocode" -> isReverseGeocodeArgs(args)
      [] name = "get_directions" -> isDirectionsArgs(args)
      [] OTHER -> isDistanceMatrixArgs(args)

(* the client method the tool calls *)
MapsMethod(name) ==
    CASE name = "geocode" -> "geocode"
      [] name = "reverse_geocode" -> "reverseGeocode"
      [] name = "get_directions" -> "directions"
      [] OTHER -> "distancematrix"

(* the mode passed to the client: params.mode is args.mode in the two      *)
(* routing tools; geocode and reverseGeocode get no mode                   *)
MapsMode(name, args) ==
    IF name \in {"get_directions", "get_distance_matrix"} THEN args.mode
    ELSE Undefined

(* an error of the Maps client: response.data carries error_message/status *)
MapsApiError(status, message) ==
    [NoError EXCEPT !.class = "AxiosError", !.status = status, !.text = message]

MapsCatch_Rethrows(error) ==
    [isError |-> TRUE,
     code |-> IF error.class = "McpError" THEN error.code
              ELSE ErrorCode.InternalError,
     text |-> "Google Maps API Error: ", notFoundId |-> None, id |-> None,
     cause |-> error]

(* the catch of the CallTool handler: whatever was thrown, an McpError     *)
(* included, is returned as a tool result with isError, carrying the       *)
(* message and no error code                                               *)
MapsCatch(error) ==
    [isError |-> TRUE, code |-> "none", text |-> "Google Maps API Error: ",
     notFoundId |-> None, id |-> None, cause |-> error]

(* the Maps server before a request *)
MapsIdle ==
    [pc |-> "idle", name |-> "none", arguments |-> MapsNoArguments,
     vendor |-> <<>>, result |-> None]

Init ==
    /\ files \in {<<>>} \cup {[id \in {NotebookId} |-> b] : b \in InitBodies}
    /\ folder = <<>>
    /\ calls = [c \in Calls |-> Idle]
    /\ maps = [c \in Calls |-> MapsIdle]
    /\ text = <<>>
    /\ source = <<>>
    /\ encoder = "none"

(* the default case of the switch: thrown outside every try block, the    *)
(* McpError reaches the caller as it is                                    *)
UnknownToolError(name) ==
    [isError |-> TRUE, code |-> ErrorCode.MethodNotFound,
     text |-> "Unknown tool: " \o name, notFoundId |-> None, id |-> None,
     cause |-> McpError(ErrorCode.MethodNotFound, "Unknown tool: " \o name)]

(* handleCallTool up to the first await: validate, then call the Drive API *)
CallTool(c, name, args) ==
    /\ calls[c].pc = "idle"
    /\ LET started == [Idle EXCEPT !.name = name, !.arguments = args]
           validated == Schema(name, args)
       IN  calls' = [calls EXCEPT ![c] =
                IF name \notin DriveTools
                THEN [started EXCEPT !.pc = "done",
                                     !.result = Some(UnknownToolError(name))]
                ELSE IF validated.threw THEN Fail(started, validated.error)
                ELSE [started EXCEPT
                        !.pc = FirstAwait(name),
                        !.gets = IF FirstMethod(name) = "files.get" THEN 1
                                 ELSE 0,
                        !.api = <<FirstMethod(name)>>]]
    /\ UNCHANGED <<files, folder, maps, text, source, encoder>>

CallAddCodeCell(c) ==
    \E args \in AddCodeCellArguments : CallTool(c, "add_code_cell", args)

CallEditCodeCell(c) ==
    \E args \in EditCodeCellArguments : CallTool(c, "edit_code_cell", args)

CallUnknownTool(c) == CallTool(c, UnknownTool, NoArguments)

GetResolves_UploadsFirst(c) ==
    /\ calls[c].pc = "get"
    /\ NotebookId \in DOMAIN files
    /\ LET call == calls[c]
           body == files[call.arguments.notebookFileId[1]]
           got == [call EXCEPT !.fetched = Some(body)]
           out == IF call.name = "add_code_cell"
                  THEN AddCodeCellBody(body, call.arguments)
                  ELSE EditCodeCellBody(body, call.arguments)
       IN  /\ files' = [files EXCEPT ![NotebookId] = out.body]
           /\ calls' = [calls EXCEPT ![c] =
                IF out.threw THEN Fail(got, out.error)
                ELSE [got EXCEPT !.pc = "update", !.pending = Some(out.body),
                                 !.api = Append(call.api, "files.update")]]
    /\ UNCHANGED <<folder, maps, text, source, encoder>>

(* the download resolves: parse, transform, stringify, drive.files.update *)
GetResolves(c) ==
    /\ calls[c].pc = "get"
    /\ NotebookId \in DOMAIN files
    /\ LET call == calls[c]
           body == files[call.arguments.notebookFileId[1]]
           got == [call EXCEPT !.fetched = Some(body)]
           out == IF call.name = "add_code_cell"
                  THEN AddCodeCellBody(body, call.arguments)
                  ELSE EditCodeCellBody(body, call.arguments)
       IN  calls' = [calls EXCEPT ![c] =
                IF out.threw THEN Fail(got, out.error)
                ELSE [got EXCEPT !.pc = "update", !.pending = Some(out.body),
                                 !.api = Append(call.api, "files.update")]]
    /\ UNCHANGED <<files, folder, maps, text, source, encoder>>

GetRejects_Retries(c) ==
    /\ calls[c].pc = "get"
    /\ \E error \in {GaxiosError(404, "File not found"),
                     GaxiosError(500, "Backend Error")} :
          calls' = [calls EXCEPT ![c] =
                IF calls[c].gets < 2
                THEN [calls[c] EXCEPT !.gets = @ + 1,
                                      !.api = Append(@, "files.get")]
                ELSE Fail(calls[c], error)]
    /\ UNCHANGED <<files, folder, maps, text, source, encoder>>

(* the download rejects: 404 when the file does not exist or cannot be     *)
(* seen by this account, or a provider or network failure                  *)
GetRejects(c) ==
    /\ calls[c].pc = "get"
    /\ \E error \in {GaxiosError(404, "File not found"),
                     GaxiosError(500, "Backend Error")} :
          calls' = [calls EXCEPT ![c] = Fail(calls[c], error)]
    /\ UNCHANGED <<files, folder, maps, text, source, encoder>>

(* the upload resolves: the store holds the new body *)
UpdateResolves(c) ==
    /\ calls[c].pc = "update"
    /\ LET call == calls[c]
           id == call.arguments.notebookFileId[1]
           message == IF call.name = "add_code_cell"
                      THEN "Successfully added code cell to notebook"
                      ELSE "Successfully edited cell in notebook"
       IN  /\ files' = [files EXCEPT ![id] = call.pending[1]]
           /\ calls' = [calls EXCEPT ![c] =
                  [call EXCEPT !.pc = "done", !.pending = None,
                               !.wrote = Append(call.wrote, call.pending[1]),
                               !.result = Some(Success(message, id))]]
    /\ UNCHANGED <<folder, maps, text, source, encoder>>

(* the upload rejects (404 when the file was removed or access to it was   *)
(* lost after the download): the store is left as it was                   *)
UpdateRejects(c) ==
    /\ calls[c].pc = "update"
    /\ \E error \in {GaxiosError(404, "File not found"),
                     GaxiosError(500, "Backend Error")} :
          calls' = [calls EXCEPT ![c] = Fail(calls[c], error)]
    /\ UNCHANGED <<files, folder, maps, text, source, encoder>>

CallListFiles(c) ==
    \E args \in ListFilesArguments : CallTool(c, "list_files", args)

CallReadFile(c) ==
    \E args \in ReadFileArguments : CallTool(c, "read_file", args)

CallWriteFile(c) ==
    \E args \in WriteFileArguments : CallTool(c, "write_file", args)

(* drive.files.list settles *)
ListResolves(c) ==
    /\ calls[c].pc = "list"
    /\ calls' = [calls EXCEPT ![c] =
           [calls[c] EXCEPT !.pc = "done",
                            !.result = Some(Success("Files/Folders in", "root"))]]
    /\ UNCHANGED <<files, folder, maps, text, source, encoder>>

ListRejects(c) ==
    /\ calls[c].pc = "list"
    /\ \E error \in {GaxiosError(404, "File not found"),
                     GaxiosError(500, "Backend Error")} :
          calls' = [calls EXCEPT ![c] = Fail(calls[c], error)]
    /\ UNCHANGED <<files, folder, maps, text, source, encoder>>

(* drive.files.get of read_file settles *)
ReadResolves(c) ==
    /\ calls[c].pc = "read"
    /\ calls[c].arguments.fileId[1] \in DOMAIN files
    /\ LET id == calls[c].arguments.fileId[1] IN
       calls' = [calls EXCEPT ![c] =
           [calls[c] EXCEPT !.pc = "done", !.fetched = Some(files[id]),
                            !.result = Some(Success("file content", id))]]
    /\ UNCHANGED <<files, folder, maps, text, source, encoder>>

ReadRejects(c) ==
    /\ calls[c].pc = "read"
    /\ \E error \in {GaxiosError(404, "File not found"),
                     GaxiosError(500, "Backend Error")} :
          calls' = [calls EXCEPT ![c] = Fail(calls[c], error)]
    /\ UNCHANGED <<files, folder, maps, text, source, encoder>>

NewFileId(n) == "file" \o ToString(n)

(* drive.files.create({requestBody: fileMetadata, media}): Drive makes a   *)
(* new file with a new id; names are not unique within a folder            *)
CreateFile(entries, fileMetadata, media) ==
    Append(entries,
           [id |-> NewFileId(Len(entries) + 1), name |-> fileMetadata.name,
            parents |-> fileMetadata.parents, body |-> media.body])

(* parentFolderId: z.string().optional().default('root') *)
ParentFolder(args) ==
    IF args.parentFolderId = None THEN "root" ELSE args.parentFolderId[1]

(* parents: parentFolderId ? [parentFolderId] : [] (the empty string is    *)
(* falsy)                                                                  *)
Parents(parentFolderId) ==
    IF parentFolderId = "" THEN <<>> ELSE <<parentFolderId>>

(* drive.files.create of write_file settles *)
CreateResolves(c) ==
    /\ calls[c].pc = "create"
    /\ LET args == calls[c].arguments
           fileMetadata == [name |-> args.fileName[1],
                            parents |-> Parents(ParentFolder(args))]
           media == [mimeType |-> "text/plain", body |-> args.content[1]]
       IN  /\ folder' = CreateFile(folder, fileMetadata, media)
           /\ calls' = [calls EXCEPT ![c] =
                  [calls[c] EXCEPT
                      !.pc = "done",
                      !.result = Some(Success("Successfully created file",
                                              folder'[Len(folder')].id))]]
    /\ UNCHANGED <<files, maps, text, source, encoder>>

CreateRejects(c) ==
    /\ calls[c].pc = "create"
    /\ calls' = [calls EXCEPT ![c] =
           Fail(calls[c], GaxiosError(500, "Backend Error"))]
    /\ UNCHANGED <<files, folder, maps, text, source, encoder>>

DriveNext(c) ==
        \/ CallListFiles(c)
        \/ CallReadFile(c)
        \/ CallWriteFile(c)
        \/ CallAddCodeCell(c)
        \/ CallEditCodeCell(c)
        \/ CallUnknownTool(c)
        \/ ListResolves(c)
        \/ ListRejects(c)
        \/ ReadResolves(c)
        \/ ReadRejects(c)
        \/ CreateResolves(c)
        \/ CreateRejects(c)
        \/ GetResolves(c)
        \/ GetRejects(c)
        \/ UpdateResolves(c)
        \/ UpdateRejects(c)

Next == \E c \in Calls : DriveNext(c)

Spec == Init /\ [][Next]_vars

(***************************************************************************)
(* The Maps server's CallTool handler: guard the arguments, call the       *)
(* client and await it, return the response or the caught error.           *)
(***************************************************************************)
InitMaps ==
    /\ files = <<>>
    /\ folder = <<>>
    /\ calls = [c \in Calls |-> Idle]
    /\ maps = [c \in Calls |-> MapsIdle]
    /\ text = <<>>
    /\ source = <<>>
    /\ encoder = "none"

MapsCallTool(c, name, args) ==
    /\ maps[c].pc = "idle"
    /\ LET started == [MapsIdle EXCEPT !.name = name, !.arguments = args]
       IN  maps' = [maps EXCEPT ![c] =
               IF name \notin MapsTools
               THEN [started EXCEPT
                       !.pc = "done",
                       !.result = Some(MapsCatch(
                           McpError(ErrorCode.MethodNotFound,
                                    "Unknown tool: " \o name)))]
               ELSE IF ~MapsGuard(name, args)
               THEN [started EXCEPT
                       !.pc = "done",
                       !.result = Some(MapsCatch(
                           McpError(ErrorCode.InvalidParams,
                                    "Invalid arguments for " \o name)))]
               ELSE [started EXCEPT
                       !.pc = "await",
                       !.vendor = <<[method |-> MapsMethod(name),
                                     mode |-> MapsMode(name, args)]>>]]
    /\ UNCHANGED <<files, folder, calls, text, source, encoder>>

CallGeocode(c) ==
    \E args \in GeocodeArguments : MapsCallTool(c, "geocode", args)

CallReverseGeocode(c) ==
    \E args \in ReverseGeocodeArguments :
        MapsCallTool(c, "reverse_geocode", args)

CallGetDirections(c) ==
    \E args \in DirectionsArguments : MapsCallTool(c, "get_directions", args)

CallGetDistanceMatrix(c) ==
    \E args \in DistanceMatrixArguments :
        MapsCallTool(c, "get_distance_matrix", args)

MapsCallUnknownTool(c) == MapsCallTool(c, UnknownTool, MapsNoArguments)

(* the client call resolves: JSON.stringify(response.data, null, 2) *)
MapsResolves(c) ==
    /\ maps[c].pc = "await"
    /\ maps' = [maps EXCEPT ![c] =
           [maps[c] EXCEPT
               !.pc = "done",
               !.result = Some([isError |-> FALSE, code |-> "none",
                                text |-> "response.data", notFoundId |-> None,
                                id |-> None, cause |-> NoError])]]
    /\ UNCHANGED <<files, folder, calls, text, source, encoder>>

(* the client call rejects *)
MapsRejects(c) ==
    /\ maps[c].pc = "await"
    /\ \E error \in {MapsApiError(403, "REQUEST_DENIED"),
                     MapsApiError(0, "timeout of 10000ms exceeded")} :
          maps' = [maps EXCEPT ![c] =
              [maps[c] EXCEPT !.pc = "done",
                              !.result = Some(MapsCatch(error))]]
    /\ UNCHANGED <<files, folder, calls, text, source, encoder>>

MapsNext(c) ==
    \/ CallGeocode(c)
    \/ CallReverseGeocode(c)
    \/ CallGetDirections(c)
    \/ CallGetDistanceMatrix(c)
    \/ MapsCallUnknownTool(c)
    \/ MapsResolves(c)
    \/ MapsRejects(c)

NextMaps == \E c \in Calls : MapsNext(c)

SpecMaps == InitMaps /\ [][NextMaps]_vars

(***************************************************************************)
(* The two servers side by side, one call to each.                         *)
(***************************************************************************)
Caller == "c1"

NextServers == DriveNext(Caller) \/ MapsNext(Caller)

SpecServers == Init /\ [][NextServers]_vars

(***************************************************************************)
(* The encoding on its own: a text is drawn, and either tool's encoding is *)
(* applied to it.                                                          *)
(***************************************************************************)
InitEnc ==
    /\ text \in Texts
    /\ source = <<>>
    /\ encoder = "none"
    /\ files = <<>>
    /\ folder = <<>>
    /\ calls = [c \in Calls |-> Idle]
    /\ maps = [c \in Calls |-> MapsIdle]

EncodeAdd ==
    /\ encoder = "none"
    /\ source' = AddCellSource(text)
    /\ encoder' = "add_code_cell"
    /\ UNCHANGED <<files, folder, calls, maps, text>>

EncodeEdit ==
    /\ encoder = "none"
    /\ source' = EditCellSource(text)
    /\ encoder' = "edit_code_cell"
    /\ UNCHANGED <<files, folder, calls, maps, text>>

NextEnc == EncodeAdd \/ EncodeEdit

SpecEnc == InitEnc /\ [][NextEnc]_vars

Encoded == encoder # "none"

(***************************************************************************)
(* Properties of the encoding (checked under SpecEnc).                      *)
(***************************************************************************)
HasInnerBreak(frag) == \E i \in 1..(Len(frag) - 1) : frag[i] = NL

HasBreak(frag) == \E i \in 1..Len(frag) : frag[i] = NL

EndsWithOneNL(t) == EndsWithNL(t) /\ (Len(t) = 1 \/ t[Len(t) - 1] # NL)

(* Decoding: join the fragments and put back the terminator that was     *)
(* stripped from the final fragment.                                      *)
Decode(src) == IF src = <<>> THEN <<>> ELSE Concat(src) \o <<NL>>

(* C5: for a code-text that does not end with a line break, the fragments *)
(* either tool computes, concatenated in order, are the code-text itself.  *)
C5_ConcatReproducesText ==
    (Encoded /\ ~EndsWithNL(text)) => Concat(source) = text

C5_Witness ==
    /\ encoder = "edit_code_cell"
    /\ ~EndsWithNL(text)
    /\ CountNL(text) >= 2
    /\ Len(source) = 3
    /\ Concat(source) = text

(* C6: for a code-text that ends with exactly one line break, joining the *)
(* fragments and re-adding the terminator stripped from the final         *)
(* fragment gives the code-text back, with its one trailing line break.   *)
C6_RoundTripOneTrailingBreak ==
    (Encoded /\ EndsWithOneNL(text)) => Decode(source) = text

C6_Witness ==
    /\ encoder = "add_code_cell"
    /\ EndsWithOneNL(text)
    /\ CountNL(text) >= 2
    /\ Decode(source) = text

(* C7 as stated: the empty code-text is encoded as one fragment, the      *)
(* empty string.                                                          *)
C7_EmptyTextIsOneEmptyFragment ==
    (Encoded /\ text = <<>>) => source = << <<>> >>

(* C7 as amended: the empty code-text is encoded, by either tool, as the  *)
(* empty sequence: the single "\n" fragment is dropped, none remains.     *)
C7_EmptyTextIsNoFragment ==
    (Encoded /\ text = <<>>) => source = <<>>

C7_Witness == encoder = "add_code_cell" /\ text = <<>> /\ Len(source) = 0

(* C8: in the source either tool writes, every fragment except the last   *)
(* ends with a line break and holds no other line break, and the last     *)
(* fragment holds no line break.                                          *)
C8_FragmentShape ==
    Encoded =>
        /\ \A i \in 1..(Len(source) - 1) :
              EndsWithNL(source[i]) /\ ~HasInnerBreak(source[i])
        /\ Len(source) > 0 => ~HasBreak(source[Len(source)])

C8_Witness ==
    /\ encoder = "edit_code_cell"
    /\ Len(source) = 3
    /\ source[1] = <<"a", NL>>
    /\ source[2] = <<NL>>
    /\ source[3] = <<"b">>

(* C9: for a code-text that ends with a line break, the piece after the   *)
(* final line break is dropped: the source has one fragment per line      *)
(* break of the text, and its last fragment is empty only when the last   *)
(* line of the text itself is blank.                                      *)
C9_TrailingBlankLineDropped ==
    (Encoded /\ EndsWithNL(text)) =>
        /\ Len(source) = CountNL(text)
        /\ source[Len(source)] = <<>> =>
              (Len(text) = 1 \/ text[Len(text) - 1] = NL)

C9_Witness ==
    /\ encoder = "add_code_cell"
    /\ text = <<"a", NL, "b", NL>>
    /\ source = << <<"a", NL>>, <<"b">> >>

(***************************************************************************)
(* Properties of the tool calls (checked under Spec).  Of a call: the      *)
(* notebook it fetched, the notebook it stored, the error it ended with.   *)
(***************************************************************************)
IsNotebook(body) ==
    body.syntax = "json" /\ ~InvalidStructure(body.value)

CellsOf(body) == body.value.cells[1]

FetchedNotebook(call) ==
    call.fetched # None /\ IsNotebook(call.fetched[1])

Succeeded(call) ==
    call.pc = "done" /\ ~call.result[1].isError /\ Len(call.wrote) = 1

Failed(call) == call.pc = "done" /\ call.result[1].isError

Cause(call) == call.result[1].cause

(* C1: add_code_cell with a position k, 0 <= k <= n, on a notebook of n    *)
(* cells stores n+1 cells: the new code cell at index k, the cells before  *)
(* k where they were, the cells from k on one index higher, all unchanged. *)
C1_InsertAtPosition ==
    \A c \in Calls :
        LET call == calls[c] IN
        (/\ call.name = "add_code_cell"
         /\ Succeeded(call)
         /\ call.arguments.position # None
         /\ call.arguments.position[1] <= Len(CellsOf(call.fetched[1])))
        =>
        LET old == CellsOf(call.fetched[1])
            new == CellsOf(call.wrote[1])
            k == call.arguments.position[1]
        IN  /\ Len(new) = Len(old) + 1
            /\ new[k + 1].cell_type = "code"
            /\ Concat(new[k + 1].source) = call.arguments.code[1]
            /\ \A i \in 1..k : new[i] = old[i]
            /\ \A i \in (k + 1)..Len(old) : new[i + 1] = old[i]

(* C2: a successful edit_code_cell on cell i changes only the source of    *)
(* cell i: every other cell, and the cell_type, metadata, outputs and      *)
(* execution_count of cell i, are stored as they were fetched.             *)
C2_EditChangesOnlySource ==
    \A c \in Calls :
        LET call == calls[c] IN
        (call.name = "edit_code_cell" /\ Succeeded(call))
        =>
        LET old == CellsOf(call.fetched[1])
            new == CellsOf(call.wrote[1])
            i == call.arguments.cellIndex[1] + 1
        IN  /\ Len(new) = Len(old)
            /\ \A j \in 1..Len(old) : j # i => new[j] = old[j]
            /\ new[i].cell_type = old[i].cell_type
            /\ new[i].metadata = old[i].metadata
            /\ new[i].outputs = old[i].outputs
            /\ new[i].execution_count = old[i].execution_count

IsRangeError(call, index, count) ==
    /\ Failed(call)
    /\ Cause(call).text = "Invalid cell index"
    /\ Cause(call).index = Some(index)
    /\ Cause(call).count = Some(count)

(* C3 as stated: edit_code_cell with index n on a notebook of n cells, or  *)
(* with index -1, fails with the cell-index-out-of-bounds error, which     *)
(* reports the requested index and the actual cell count, and writes       *)
(* nothing to the store.                                                   *)
C3_RangeErrorAtCountAndMinusOne ==
    \A c \in Calls :
        LET call == calls[c] IN
        /\ (/\ call.name = "edit_code_cell"
            /\ call.pc = "done"
            /\ FetchedNotebook(call)
            /\ call.arguments.cellIndex[1] = Len(CellsOf(call.fetched[1])))
           => /\ IsRangeError(call, call.arguments.cellIndex[1],
                              Len(CellsOf(call.fetched[1])))
              /\ call.wrote = <<>>
        /\ (/\ call.name = "edit_code_cell"
            /\ call.pc = "done"
            /\ call.arguments.cellIndex = Some(-1))
           => /\ Failed(call)
              /\ Cause(call).text = "Invalid cell index"
              /\ Cause(call).index = Some(-1)
              /\ Cause(call).count # None
              /\ call.wrote = <<>>

(* C3 as amended: edit_code_cell with index n on a notebook of n cells     *)
(* fails with the cell-index-out-of-bounds error, which reports index n    *)
(* and count n; with index -1 it fails argument validation, before the     *)
(* notebook is fetched and with no cell count reported.  Neither writes    *)
(* to the store.                                                           *)
C3_RangeErrorAtCountValidationAtMinusOne ==
    \A c \in Calls :
        LET call == calls[c] IN
        /\ (/\ call.name = "edit_code_cell"
            /\ call.pc = "done"
            /\ FetchedNotebook(call)
            /\ call.arguments.cellIndex[1] = Len(CellsOf(call.fetched[1])))
           => /\ IsRangeError(call, call.arguments.cellIndex[1],
                              Len(CellsOf(call.fetched[1])))
              /\ call.wrote = <<>>
              /\ call.pending = None
        /\ (/\ call.name = "edit_code_cell"
            /\ call.pc # "idle"
            /\ call.arguments.cellIndex = Some(-1))
           => /\ Failed(call)
              /\ Cause(call).class = "ZodError"
              /\ Cause(call).count = None
              /\ call.result[1].code = ErrorCode.InvalidParams
              /\ call.gets = 0
              /\ call.fetched = None
              /\ call.wrote = <<>>
              /\ call.pending = None

C3_Witness ==
    \E c, d \in Calls :
        /\ calls[c].name = "edit_code_cell"
        /\ calls[c].arguments.cellIndex = Some(2)
        /\ FetchedNotebook(calls[c])
        /\ Len(CellsOf(calls[c].fetched[1])) = 2
        /\ IsRangeError(calls[c], 2, 2)
        /\ files[NotebookId] = calls[c].fetched[1]
        /\ calls[d].name = "edit_code_cell"
        /\ calls[d].arguments.cellIndex = Some(-1)
        /\ Failed(calls[d])

(* C4: edit_code_cell whose target cell is not a code cell fails with the  *)
(* wrong-cell-kind error, which reports the cell_type found, and writes    *)
(* nothing to the store.                                                   *)
C4_NonCodeCellRejected ==
    \A c \in Calls :
        LET call == calls[c] IN
        (/\ call.name = "edit_code_cell"
         /\ call.pc # "get"
         /\ FetchedNotebook(call)
         /\ call.arguments.cellIndex[1] < Len(CellsOf(call.fetched[1]))
         /\ CellsOf(call.fetched[1])[call.arguments.cellIndex[1] + 1].cell_type
               # "code")
        =>
        /\ Failed(call)
        /\ Cause(call).text = "is not a code cell"
        /\ Cause(call).index = call.arguments.cellIndex
        /\ Cause(call).type =
              Some(CellsOf(call.fetched[1])[call.arguments.cellIndex[1] + 1]
                      .cell_type)
        /\ call.wrote = <<>>
        /\ call.pending = None

C4_Witness ==
    \E c \in Calls :
        /\ calls[c].name = "edit_code_cell"
        /\ calls[c].arguments.cellIndex = Some(1)
        /\ FetchedNotebook(calls[c])
        /\ CellsOf(calls[c].fetched[1]) = <<CodeCell, MarkdownCell>>
        /\ Failed(calls[c])
        /\ Cause(calls[c]).type = Some("markdown")
        /\ files[NotebookId] = calls[c].fetched[1]

(* C10: add_code_cell with the position omitted, or greater than the cell  *)
(* count n, stores what add_code_cell with position n stores: the fetched  *)
(* cells, as the JSON round trip writes them, followed by the new cell.    *)
(* The position makes no such call fail:                                   *)
(* it passes validation, and once a notebook is fetched it ends only in    *)
(* success or in the failure of the upload.                                *)
C10_AppendWhenOmittedOrBeyond ==
    \A c \in Calls :
        LET call == calls[c]
            position == call.arguments.position
        IN
        (/\ call.name = "add_code_cell"
         /\ call.arguments.code # None
         /\ position = None \/ position[1] >= 0)
        =>
        /\ call.gets = 1
        /\ (/\ FetchedNotebook(call)
            /\ position = None \/ position[1] > Len(CellsOf(call.fetched[1])))
           =>
           LET old == CellsOf(call.fetched[1])
               atN == AddCodeCellBody(call.fetched[1],
                          [call.arguments EXCEPT !.position = Some(Len(old))])
               stored == IF call.pc = "update" THEN call.pending[1]
                         ELSE call.wrote[1]
           IN  \/ /\ call.pc = "update" \/ Succeeded(call)
                  /\ stored = atN.body
                  /\ Len(CellsOf(stored)) = Len(old) + 1
                  /\ SubSeq(CellsOf(stored), 1, Len(old))
                        = StringifyCells(ParseCells(old))
                  /\ CellsOf(stored)[Len(old) + 1].cell_type = "code"
               \/ /\ Failed(call)
                  /\ Cause(call).class = "GaxiosError"
                  /\ call.wrote = <<>>

C10_Witness ==
    \E c, d \in Calls :
        /\ calls[c].name = "add_code_cell"
        /\ calls[c].arguments.position = Some(3)
        /\ Succeeded(calls[c])
        /\ Len(CellsOf(calls[c].fetched[1])) = 1
        /\ Len(CellsOf(calls[c].wrote[1])) = 2
        /\ calls[d].name = "add_code_cell"
        /\ calls[d].arguments.position = None
        /\ Succeeded(calls[d])
        /\ Len(CellsOf(calls[d].fetched[1])) = 2
        /\ CellsOf(calls[d].wrote[1])[3].cell_type = "code"

(***************************************************************************)
(* Properties of failures, validation and error codes.                     *)
(***************************************************************************)
ErrorCodes ==
    {ErrorCode.InvalidRequest, ErrorCode.MethodNotFound,
     ErrorCode.InvalidParams, ErrorCode.InternalError}

(* C11: a failing add_code_cell or edit_code_cell writes nothing: the step *)
(* in which the call fails leaves the store as it is, and the call has     *)
(* made no write before it.                                                *)
C11_NoWriteOnFailure ==
    [][\A c \in Calls :
          (/\ calls'[c].name \in NotebookTools
           /\ calls[c].pc # "done"
           /\ Failed(calls'[c]))
          => /\ files' = files
             /\ folder' = folder
             /\ calls'[c].wrote = <<>>]_vars

C11_Witness ==
    \E c, d \in Calls :
        /\ calls[c].name = "edit_code_cell"
        /\ Failed(calls[c])
        /\ Cause(calls[c]).text = "Invalid cell index"
        /\ calls[d].name = "add_code_cell"
        /\ Failed(calls[d])
        /\ Cause(calls[d]).class = "GaxiosError"
        /\ Len(calls[d].api) = 2
        /\ files[NotebookId] = calls[c].fetched[1]
        /\ files[NotebookId] = calls[d].fetched[1]

(* the arguments that break a tool's schema: a required one left out, a    *)
(* negative index or position, a page size that is not positive            *)
BreaksSchema(name, args) ==
    CASE ~args.object -> TRUE
      [] name = "list_files" ->
            args.pageSize # None /\ args.pageSize[1] < 1
      [] name = "read_file" -> args.fileId = None
      [] name = "write_file" -> args.fileName = None \/ args.content = None
      [] name = "add_code_cell" ->
            \/ args.notebookFileId = None
            \/ args.code = None
            \/ (args.position # None /\ args.position[1] < 0)
      [] OTHER ->
            \/ args.notebookFileId = None
            \/ args.cellIndex = None
            \/ args.newCode = None
            \/ args.cellIndex[1] < 0

(* C12: in every Drive tool, arguments that break the tool's schema make   *)
(* the call fail with InvalidParams, and no call to the Drive API is made. *)
C12_InvalidArgumentsBeforeAnyCall ==
    \A c \in Calls :
        LET call == calls[c] IN
        (/\ call.pc # "idle"
         /\ call.name \in DriveTools
         /\ BreaksSchema(call.name, call.arguments))
        => /\ Failed(call)
           /\ call.result[1].code = ErrorCode.InvalidParams
           /\ Cause(call).class = "ZodError"
           /\ call.api = <<>>
           /\ call.gets = 0
           /\ call.fetched = None
           /\ call.wrote = <<>>

C12_Witness ==
    \E c, d \in Calls :
        /\ calls[c].name = "add_code_cell"
        /\ calls[c].arguments.code = None
        /\ Failed(calls[c])
        /\ calls[c].api = <<>>
        /\ calls[d].name = "list_files"
        /\ calls[d].arguments.pageSize = Some(0)
        /\ calls[d].result[1].code = ErrorCode.InvalidParams

RequestedId(call) ==
    IF call.name = "read_file" THEN call.arguments.fileId
    ELSE call.arguments.notebookFileId

(* C13: a 404 from the store during read_file, add_code_cell or            *)
(* edit_code_cell fails the call with InvalidRequest and a message that    *)
(* holds the requested id; any other failure of the store fails the call   *)
(* with InternalError and a message that holds the provider's message.     *)
C13_NotFoundAndProviderErrors ==
    \A c \in Calls :
        LET call == calls[c] IN
        (Failed(call) /\ Len(call.api) > 0)
        => /\ Cause(call).class # "McpError" => Cause(call).class = "GaxiosError"
           /\ Cause(call).class = "GaxiosError" =>
                IF Cause(call).status = 404
                     /\ call.name \in {"read_file"} \cup NotebookTools
                THEN /\ call.result[1].code = ErrorCode.InvalidRequest
                     /\ call.result[1].notFoundId = RequestedId(call)
                     /\ call.result[1].notFoundId # None
                ELSE /\ call.result[1].code = ErrorCode.InternalError
                     /\ call.result[1].text = ToolPrefix(call.name)
                     /\ Cause(call).text # ""

C13_Witness ==
    \E c, d \in Calls :
        /\ calls[c].name = "read_file"
        /\ Failed(calls[c])
        /\ calls[c].result[1].code = ErrorCode.InvalidRequest
        /\ calls[c].result[1].notFoundId = Some(NotebookId)
        /\ calls[d].name = "edit_code_cell"
        /\ Failed(calls[d])
        /\ Cause(calls[d]).status = 404

BetweenFetchAndStore(call) ==
    call.name \in NotebookTools /\ call.pc = "update"

(* C14: no two notebook-mutating calls on the same document are both       *)
(* between their fetch and their store.                                    *)
C14_NoOverlappingMutation ==
    \A c, d \in Calls :
        (/\ c # d
         /\ BetweenFetchAndStore(calls[c])
         /\ BetweenFetchAndStore(calls[d]))
        => calls[c].arguments.notebookFileId # calls[d].arguments.notebookFileId

(* C15: a cell's execution_count is null in the stored notebook after      *)
(* add_code_cell created the cell and after edit_code_cell replaced its    *)
(* source.                                                                 *)
C15_ExecutionCountReset ==
    \A c \in Calls :
        LET call == calls[c] IN
        /\ (/\ call.name = "add_code_cell"
            /\ Succeeded(call)
            /\ call.arguments.position = None)
           => LET new == CellsOf(call.wrote[1]) IN
              new[Len(new)].execution_count = None
        /\ (call.name = "edit_code_cell" /\ Succeeded(call))
           => CellsOf(call.wrote[1])[call.arguments.cellIndex[1] + 1]
                 .execution_count = None

(* C16: a successful add_code_cell or edit_code_cell stores every          *)
(* top-level field of the notebook other than the cells as it fetched it:  *)
(* the stored text denotes, field by field, what the fetched text denotes. *)
C16_TopLevelFieldsPreserved ==
    \A c \in Calls :
        LET call == calls[c] IN
        (call.name \in NotebookTools /\ (call.pc = "update" \/ Succeeded(call)))
        => LET stored == IF call.pc = "update" THEN call.pending[1]
                         ELSE call.wrote[1]
           IN  /\ stored.syntax = "json"
               /\ stored.value.kind = call.fetched[1].value.kind
               /\ stored.value.rest = call.fetched[1].value.rest

(* C17: after any successful write_file calls with one file name and       *)
(* parent folder, the folder holds exactly one file of that name, and its  *)
(* content is the content of the last of the calls.                        *)
C17_WriteFileOverwrites ==
    \A i, j \in 1..Len(folder) :
        (folder[i].name = folder[j].name /\ folder[i].parents = folder[j].parents)
        => i = j

(* C18 as stated: in both servers a provider failure reaches the caller    *)
(* as an error that carries a code of the ErrorCode enum.                  *)
C18_ProviderFailureCarriesCode ==
    /\ \A c \in Calls :
          (Failed(calls[c]) /\ Cause(calls[c]).class = "GaxiosError")
          => calls[c].result[1].code \in ErrorCodes
    /\ \A c \in Calls :
          (maps[c].pc = "done" /\ maps[c].result[1].cause.class = "AxiosError")
          => /\ maps[c].result[1].isError
             /\ maps[c].result[1].code \in ErrorCodes

(* C18 as amended: in the Drive server a provider failure reaches the      *)
(* caller as an McpError whose code is InternalError or InvalidRequest; in *)
(* the Maps server it is returned as a tool result with isError set and    *)
(* the provider's message, which carries no error code.                    *)
C18_DriveCodeMapsIsErrorResult ==
    /\ \A c \in Calls :
          (Failed(calls[c]) /\ Cause(calls[c]).class = "GaxiosError")
          => calls[c].result[1].code
                \in {ErrorCode.InternalError, ErrorCode.InvalidRequest}
    /\ \A c \in Calls :
          (maps[c].pc = "done" /\ maps[c].result[1].cause.class = "AxiosError")
          => /\ maps[c].result[1].isError
             /\ maps[c].result[1].code = "none"
             /\ maps[c].result[1].text = "Google Maps API Error: "
             /\ maps[c].result[1].cause.text # ""

C18_Witness ==
    /\ Failed(calls[Caller])
    /\ Cause(calls[Caller]).class = "GaxiosError"
    /\ calls[Caller].name = "list_files"
    /\ maps[Caller].pc = "done"
    /\ maps[Caller].name = "geocode"
    /\ maps[Caller].result[1].cause.class = "AxiosError"

(* C19: the error edit_code_cell gives its caller for an out-of-range cell *)
(* index and for a non-code target cell has the code InvalidParams, not    *)
(* InternalError.                                                          *)
C19_EditErrorsAreInvalidParams ==
    \A c \in Calls :
        LET call == calls[c] IN
        (/\ call.name = "edit_code_cell"
         /\ Failed(call)
         /\ Cause(call).text \in {"Invalid cell index", "is not a code cell"})
        => /\ call.result[1].code = ErrorCode.InvalidParams
           /\ call.result[1].code # ErrorCode.InternalError

(* C20: a get_directions or get_distance_matrix call whose mode is not one *)
(* of the declared modes is rejected, and no call to the vendor is made;   *)
(* the vendor is called only with a mode the schema allows.                *)
C20_VendorCalledOnlyWithDeclaredMode ==
    \A c \in Calls :
        LET call == maps[c] IN
        (/\ call.name \in {"get_directions", "get_distance_matrix"}
         /\ call.arguments.mode.type # "undefined"
         /\ ~(call.arguments.mode.type = "string"
                 /\ call.arguments.mode.str \in DeclaredModes))
        => /\ call.vendor = <<>>
           /\ call.pc = "done"
           /\ call.result[1].isError

(***************************************************************************)
(* Unknown tools, the number of calls to the store, and concurrent inserts. *)
(***************************************************************************)

(* C21: in both servers a call that names a tool the server does not list  *)
(* fails with the error code MethodNotFound, and no call to the vendor's   *)
(* API is made.                                                            *)
C21_UnknownToolIsMethodNotFound ==
    /\ \A c \in Calls :
          (calls[c].pc # "idle" /\ calls[c].name \notin DriveTools)
          => /\ Failed(calls[c])
             /\ calls[c].result[1].code = ErrorCode.MethodNotFound
             /\ calls[c].api = <<>>
    /\ \A c \in Calls :
          (maps[c].pc # "idle" /\ maps[c].name \notin MapsTools)
          => /\ maps[c].pc = "done"
             /\ maps[c].result[1].isError
             /\ maps[c].result[1].code = ErrorCode.MethodNotFound
             /\ maps[c].vendor = <<>>

(* C22: within one add_code_cell or edit_code_cell call the store is       *)
(* fetched at most once and written at most once, the write is requested   *)
(* only after the fetch has returned, and a call whose fetch or write      *)
(* failed has made no further call to the store.                           *)
C22_FetchOnceWriteOnce ==
    \A c \in Calls :
        LET call == calls[c] IN
        call.name \in NotebookTools
        => /\ call.gets <= 1
           /\ Len(call.wrote) <= 1
           /\ call.api \in {<<>>, <<"files.get">>,
                            <<"files.get", "files.update">>}
           /\ (Len(call.api) = 2 \/ call.wrote # <<>>) => call.fetched # None
           /\ (Failed(call) /\ Cause(call).class = "GaxiosError")
              => /\ call.wrote = <<>>
                 /\ call.fetched = None <=> call.api = <<"files.get">>

C22_Witness ==
    \E c, d \in Calls :
        /\ calls[c].name = "add_code_cell"
        /\ Failed(calls[c])
        /\ Cause(calls[c]).class = "GaxiosError"
        /\ calls[c].api = <<"files.get">>
        /\ calls[d].name = "edit_code_cell"
        /\ Failed(calls[d])
        /\ Cause(calls[d]).class = "GaxiosError"
        /\ calls[d].api = <<"files.get", "files.update">>
        /\ calls[d].fetched # None

(* the add_code_cell calls that have returned success *)
SuccessfulInserts ==
    {c \in Calls : calls[c].name = "add_code_cell" /\ Succeeded(calls[c])}

(* the notebook's cell count before any call wrote: the least count that a *)
(* successful insert fetched (the first fetch precedes every write)        *)
InitialCellCount ==
    CHOOSE n \in 0..(MaxInitCells + Cardinality(Calls)) :
        /\ \E c \in SuccessfulInserts : Len(CellsOf(calls[c].fetched[1])) = n
        /\ \A c \in SuccessfulInserts : Len(CellsOf(calls[c].fetched[1])) >= n

(* C23: no successful insert is lost: when the calls on a notebook are all *)
(* add_code_cell calls and have all completed, the stored notebook has its *)
(* initial cell count plus the number of calls that returned success, also *)
(* when a call was issued before an earlier one had finished.              *)
C23_NoLostInsert ==
    (/\ \A c \in Calls :
            calls[c].pc = "done" /\ calls[c].name = "add_code_cell"
     /\ SuccessfulInserts # {})
    => Len(CellsOf(files[NotebookId]))
          = InitialCellCount + Cardinality(SuccessfulInserts)

=============================================================================
